---- MODULE Spec2Model ----
(***************************************************************************)
(* Classroom security monitor: the frame-analysis pipeline (app.py,        *)
(* ai_service.py), the alarm state machine and its log (alarm_system.py),  *)
(* the control, admin and student handlers and the capture loop with its   *)
(* latest-frame cell (app.py).                                             *)
(*                                                                         *)
(* Similarities are scaled by 100 (0.75 is 75).  Time is in seconds.       *)
(***************************************************************************)
EXTENDS Integers, Sequences, FiniteSets, TLC

\* ------------------------------------------------------------------ bounds
MaxFrames == 1
MaxFaces == 1
MaxTriggers == 2
MaxTime == 15
NumCallers == 2
MaxCalls == 2
NumReaders == 2
NumAdders == 2
MaxCaptures == 2

\* --------------------------------------------------------------- constants
Threshold == 75
HTTP_OK == 200
HighInterval == 2
OtherInterval == 5
HighDuration == 60
MediumDuration == 30
LowDuration == 15
DefaultDuration == 30
FailureThreshold == 30

NoScore == -1
NoStudent == 0
NotStarted == -1

VARIABLES
    monitoring_active,  \* app.py global flag
    students,           \* Student table: sequence of rows, index = primary key
    entry_logs,         \* EntryLog table (committed rows)
    system_alerts,      \* SystemAlert table (committed rows)
    req,                \* the analyze_frame request being handled
    frames,             \* number of analyze_frame requests received
    is_active,          \* AlarmSystem.is_active
    loops,              \* every _alarm_loop thread started so far
    alarm_log,          \* logs/alarm_log.json
    callers,            \* callers inside trigger_alarm
    trigger_calls,      \* number of trigger_alarm calls made
    now,                \* wall clock, seconds
    camera,             \* app.py global: the device handle
    capture,            \* the thread running _capture_loop
    captures,           \* number of device reads that returned a frame
    latest_frame,       \* app.py global: raw frame of the cell
    latest_frame_b64,   \* app.py global: encoded frame of the cell
    frame_lock,         \* app.py global: who holds the lock
    readers,            \* get_camera_frame requests
    newest_returned,    \* newest frame a get_camera_frame call has answered with
    camera_users,       \* every context that has used the camera global
    answer,             \* the last answer of a control or admin handler
    calls,              \* number of control and admin requests received
    monitor_threads,    \* number of monitor_faces threads started
    adders              \* add_student requests

vars == <<monitoring_active, students, entry_logs, system_alerts, req, frames,
          is_active, loops, alarm_log, callers, trigger_calls, now,
          camera, capture, captures, latest_frame, latest_frame_b64, frame_lock,
          readers, newest_returned, camera_users,
          answer, calls, monitor_threads, adders>>

frame_vars == <<monitoring_active, students, entry_logs, system_alerts, req, frames>>
alarm_vars == <<is_active, loops, alarm_log>>
clock_vars == <<callers, trigger_calls, now>>
cell_vars == <<latest_frame, latest_frame_b64, frame_lock>>
capture_vars == <<camera, capture, captures, cell_vars, readers, newest_returned,
                  camera_users>>
admin_vars == <<answer, calls, monitor_threads>>
service_vars == <<capture_vars, admin_vars, adders>>

\* ------------------------------------------------- capability HTTP contract
\* A response text is a sequence of tokens: "{" and "}" are the braces, "k" a
\* well-formed member list holding the expected key, "x" any other text.
Contents ==
    { <<>>,
      <<"x">>,
      <<"{">>,
      <<"}", "{">>,
      <<"{", "x", "}">>,
      <<"{", "}">>,
      <<"{", "k", "}">>,
      <<"x", "{", "k", "}", "x">>,
      <<"{", "k", "}", "x", "{", "k", "}">> }

Responses ==
    { [raised |-> TRUE, status_code |-> 0, content |-> <<>>] }
    \cup [raised : {FALSE}, status_code : {HTTP_OK}, content : Contents]
    \cup { [raised |-> FALSE, status_code |-> 500, content |-> <<"x">>] }

\* str.find: 0-based index of the first occurrence, -1 when absent
find(s, c) ==
    IF \E i \in 1..Len(s) : s[i] = c
    THEN (CHOOSE i \in 1..Len(s) : s[i] = c /\ \A j \in 1..(i-1) : s[j] # c) - 1
    ELSE -1

\* str.rfind: 0-based index of the last occurrence, -1 when absent
rfind(s, c) ==
    IF \E i \in 1..Len(s) : s[i] = c
    THEN (CHOOSE i \in 1..Len(s) : s[i] = c /\ \A j \in (i+1)..Len(s) : s[j] # c) - 1
    ELSE -1

\* content[start_idx:end_idx]
slice(s, start_idx, end_idx) == SubSeq(s, start_idx + 1, end_idx)

\* json.loads: "ok" with the expected key, "nokey" for an object without it,
\* "error" for JSONDecodeError
json_loads(json_str) ==
    IF json_str = <<"{", "k", "}">> THEN "ok"
    ELSE IF json_str = <<"{", "}">> THEN "nokey"
    ELSE "error"

\* The extraction block shared by the three capability calls: "absent" when
\* the brace test fails (the block falls through without a return)
extract_json(content) ==
    LET start_idx == find(content, "{")
        end_idx == rfind(content, "}") + 1
    IN IF start_idx >= 0 /\ end_idx > start_idx
       THEN json_loads(slice(content, start_idx, end_idx))
       ELSE "absent"

\* Python values of interest
None == [none |-> TRUE, val |-> 0]
Some(v) == [none |-> FALSE, val |-> v]

\* detect_faces_in_image: the returned list, or None (implicit return)
detect_faces_in_image(response, faces) ==
    IF response.raised THEN [none |-> FALSE, val |-> <<>>]
    ELSE IF response.status_code = HTTP_OK
    THEN CASE extract_json(response.content) = "ok" -> [none |-> FALSE, val |-> faces]
           [] extract_json(response.content) = "nokey" -> [none |-> FALSE, val |-> <<>>]
           [] extract_json(response.content) = "error" -> [none |-> FALSE, val |-> <<>>]
           [] OTHER -> [none |-> TRUE, val |-> <<>>]
    ELSE [none |-> FALSE, val |-> <<>>]

\* extract_face_features: "None", "empty" ({}), "descriptor" (parsed object)
\* or "raw" (the fallback descriptor built from the raw text)
extract_face_features(response) ==
    IF response.raised THEN "None"
    ELSE IF response.status_code = HTTP_OK
    THEN CASE extract_json(response.content) = "ok" -> "descriptor"
           [] extract_json(response.content) = "nokey" -> "empty"
           [] extract_json(response.content) = "error" -> "raw"
           [] OTHER -> "None"
    ELSE "None"

\* truth value of a feature descriptor
truthy(features) == features \in {"descriptor", "raw"}

\* compare_faces after the emptiness test: a similarity, or None
compare_faces(response, similarity_score) ==
    IF response.raised THEN Some(0)
    ELSE IF response.status_code = HTTP_OK
    THEN CASE extract_json(response.content) = "ok" -> Some(similarity_score)
           [] extract_json(response.content) = "nokey" -> Some(0)
           [] extract_json(response.content) = "error" -> Some(0)
           [] OTHER -> None
    ELSE Some(0)


\* ------------------------------------------------------- alarm_system.py
AlarmLogCap == 1000

\* _get_alarm_duration
get_alarm_duration(severity) ==
    CASE severity = "high" -> HighDuration
      [] severity = "medium" -> MediumDuration
      [] severity = "low" -> LowDuration
      [] OTHER -> DefaultDuration

\* the sleep at the end of one _alarm_loop iteration
notification_interval(severity) ==
    IF severity = "high" THEN HighInterval ELSE OtherInterval

\* logs[-1000:]
\* variant: the first 1000 records are kept
first_entries(logs) ==
    IF Len(logs) > AlarmLogCap
    THEN SubSeq(logs, 1, AlarmLogCap)
    ELSE logs

last_entries(logs) ==
    IF Len(logs) > AlarmLogCap
    THEN SubSeq(logs, Len(logs) - AlarmLogCap + 1, Len(logs))
    ELSE logs

\* _log_alarm, lines 172-178: the record of one activation
log_entry(timestamp, alert_type, message, severity) ==
    [timestamp |-> timestamp, alert_type |-> alert_type, message |-> message,
     severity |-> severity, status |-> "activated"]

\* _log_alarm: append the activation record, keep the last 1000
log_alarm(logs, alert_type, message, severity) ==
    last_entries(Append(logs, log_entry(now, alert_type, message, severity)))

\* threading.Thread(target=self._alarm_loop, args=...): a thread that has not
\* run yet; start_time and alarm_duration are set by its first step
new_alarm_thread(alert_type, message, severity) ==
    [alert_type |-> alert_type, message |-> message, severity |-> severity,
     pc |-> "start", start_time |-> NotStarted, wake |-> 0,
     notified |-> 0, stopped |-> FALSE]

\* variant: the test of is_active is dropped
trigger_guard_off == TRUE

\* trigger_alarm, line 27: the test that lets a call through
trigger_guard == ~is_active

\* trigger_alarm, lines 28-39: activate, start the loop thread, log
start_alarm(alert_type, message, severity) ==
    /\ is_active' = TRUE
    /\ loops' = Append(loops, new_alarm_thread(alert_type, message, severity))
    /\ alarm_log' = log_alarm(alarm_log, alert_type, message, severity)

\* trigger_alarm called and run to completion by one caller
trigger_alarm(alert_type, message, severity) ==
    IF trigger_guard
    THEN start_alarm(alert_type, message, severity)
    ELSE UNCHANGED alarm_vars

\* a running loop thread is one that has been started and has not returned
running(loop) == loop.pc # "done"

\* stop_alarm: clear the flag; every loop still running is noted as having
\* had a stop call issued against it
stop_alarm_effect ==
    /\ is_active' = FALSE
    /\ loops' = [n \in 1..Len(loops) |->
                    IF running(loops[n])
                    THEN [loops[n] EXCEPT !.stopped = TRUE]
                    ELSE loops[n]]
    /\ UNCHANGED alarm_log

\* ------------------------------------------------------------------ app.py
SimValues == {40, 75, 80, 90}
Candidates == {[area |-> 0], [area |-> 1]}

RECURSIVE SeqsUpTo(_, _)
SeqsUpTo(S, n) ==
    IF n = 0 THEN {<<>>}
    ELSE LET shorter == SeqsUpTo(S, n - 1)
         IN shorter \cup {Append(q, x) : q \in {r \in shorter : Len(r) = n - 1}, x \in S}

FaceLists == SeqsUpTo(Candidates, MaxFaces)

BlankReq ==
    [pc |-> "idle", status |-> "none", faces |-> <<>>, i |-> 1,
     processed |-> <<>>, j |-> 1, roster |-> <<>>, k |-> 1,
     best_match_score |-> 0, matched_student |-> NoStudent, compared |-> <<>>,
     results |-> <<>>, session_logs |-> <<>>, session_alerts |-> <<>>,
     faces_detected |-> 0, calls |-> 0, triggers |-> <<>>]

\* variant: soft-deleted students stay on the roster
any_student(id) == TRUE

\* Student.query.filter_by(is_active=True).all(): primary keys in table order
is_active_student(id) == students[id].is_active
active_students == SelectSeq([id \in 1..Len(students) |-> id], is_active_student)

\* variant: the monitoring test is dropped
monitoring_guard_off == TRUE

\* analyze_frame, line 420: the request is served only while monitoring is on
monitoring_guard == monitoring_active

\* variant: a similarity equal to the threshold is accepted
better_match_at_threshold(similarity, best_match_score) ==
    similarity > best_match_score /\ similarity >= Threshold

\* analyze_frame, line 459: does this similarity replace the running best
better_match(similarity, best_match_score) ==
    similarity > best_match_score /\ similarity > Threshold

\* analyze_frame, lines 464-469: the EntryLog row for one face
entry_log_row(matched_student, best_match_score) ==
    [student_id |-> matched_student,
     is_recognized |-> matched_student # NoStudent,
     confidence_score |-> IF best_match_score > 0 THEN best_match_score ELSE NoScore]

\* analyze_frame, lines 478-483: the SystemAlert row for an unmatched face
alert_row ==
    [alert_type |-> "unknown_person", message |-> "Unknown person detected",
     severity |-> "high", is_resolved |-> FALSE]

\* variant: every face takes the recognized branch
is_match_always(matched_student) == TRUE

\* analyze_frame, line 472: which branch records the face
is_match(matched_student) == matched_student # NoStudent

\* analyze_frame, lines 499-502: rollback and error status
handler_exception ==
    req' = [req EXCEPT !.pc = "done", !.status = "error",
                       !.session_logs = <<>>, !.session_alerts = <<>>]

\* analyze_frame, lines 420-438: monitoring test, body and image decoding
analyze_frame ==
    /\ req.pc \in {"idle", "done"}
    /\ frames < MaxFrames
    /\ frames' = frames + 1
    /\ IF ~monitoring_guard
       THEN req' = [BlankReq EXCEPT !.pc = "done", !.status = "skipped"]
       ELSE \E body \in {"no_frame", "undecodable", "ok"} :
              IF body = "ok"
              THEN req' = [BlankReq EXCEPT !.pc = "detect"]
              ELSE req' = [BlankReq EXCEPT !.pc = "done", !.status = "error"]
    /\ UNCHANGED <<monitoring_active, students, entry_logs, system_alerts>>
    /\ UNCHANGED alarm_vars
    /\ UNCHANGED clock_vars
    /\ UNCHANGED service_vars

\* process_frame_for_faces, line 279, and the for statement at line 285:
\* the request after the detection call answered with this response
detect_step(r, response, faces) ==
    LET detected == detect_faces_in_image(response, faces)
    IN IF detected.none
       THEN [r EXCEPT !.pc = "done", !.status = "error", !.calls = @ + 1]
       ELSE [r EXCEPT !.pc = "extract", !.faces = detected.val,
                      !.i = 1, !.processed = <<>>, !.calls = @ + 1]

analyze_detect ==
    /\ req.pc = "detect"
    /\ \E response \in Responses, faces \in FaceLists :
         req' = detect_step(req, response, faces)
    /\ UNCHANGED <<monitoring_active, students, entry_logs, system_alerts, frames>>
    /\ UNCHANGED alarm_vars
    /\ UNCHANGED clock_vars
    /\ UNCHANGED service_vars

\* detections of a frame that shows two people
FaceBatches == { <<[area |-> 1], [area |-> 1]>> }

\* process_frame_for_faces, line 279, for a frame with several faces
analyze_detect_batch ==
    /\ req.pc = "detect"
    /\ \E response \in Responses, faces \in FaceBatches :
         req' = detect_step(req, response, faces)
    /\ UNCHANGED <<monitoring_active, students, entry_logs, system_alerts, frames>>
    /\ UNCHANGED alarm_vars
    /\ UNCHANGED clock_vars
    /\ UNCHANGED service_vars

\* process_frame_for_faces, lines 298-306: the request after the feature
\* extraction call for candidate i answered with this response
extract_step(r, response) ==
    [r EXCEPT !.processed = Append(@, [features |-> extract_face_features(response)]),
              !.i = @ + 1, !.calls = @ + 1]

\* process_frame_for_faces, lines 285-311: one iteration of the face loop
analyze_extract ==
    /\ req.pc = "extract"
    /\ IF req.i > Len(req.faces)
       THEN req' = [req EXCEPT !.pc = "face", !.j = 1]
       ELSE IF req.faces[req.i].area > 0
       THEN \E response \in Responses : req' = extract_step(req, response)
       ELSE req' = [req EXCEPT !.i = @ + 1]
    /\ UNCHANGED <<monitoring_active, students, entry_logs, system_alerts, frames>>
    /\ UNCHANGED alarm_vars
    /\ UNCHANGED clock_vars
    /\ UNCHANGED service_vars

\* analyze_frame, lines 445-450: next face, reset the best match, query students
analyze_face ==
    /\ req.pc = "face"
    /\ IF req.j > Len(req.processed)
       THEN req' = [req EXCEPT !.pc = "commit"]
       ELSE IF truthy(req.processed[req.j].features)
       THEN req' = [req EXCEPT !.pc = "compare", !.matched_student = NoStudent,
                               !.best_match_score = 0, !.compared = <<>>,
                               !.roster = active_students, !.k = 1]
       ELSE req' = [req EXCEPT !.pc = "record", !.matched_student = NoStudent,
                               !.best_match_score = 0, !.compared = <<>>,
                               !.roster = <<>>]
    /\ UNCHANGED <<monitoring_active, students, entry_logs, system_alerts, frames>>
    /\ UNCHANGED alarm_vars
    /\ UNCHANGED clock_vars
    /\ UNCHANGED service_vars

\* analyze_frame, lines 454-461 and 499-502: the request after the comparison
\* call for student k of the roster answered with this response
compare_step(r, response, similarity_score) ==
    LET similarity == compare_faces(response, similarity_score)
    IN IF similarity.none
       THEN [r EXCEPT !.pc = "done", !.status = "error",
                      !.session_logs = <<>>, !.session_alerts = <<>>,
                      !.calls = @ + 1]
       ELSE [r EXCEPT
               !.compared = Append(@, [student |-> r.roster[r.k],
                                       similarity |-> similarity.val]),
               !.best_match_score =
                   IF better_match(similarity.val, @) THEN similarity.val ELSE @,
               !.matched_student =
                   IF better_match(similarity.val, r.best_match_score)
                   THEN r.roster[r.k] ELSE @,
               !.k = @ + 1, !.calls = @ + 1]

\* analyze_frame, lines 452-461: one iteration of the student loop
analyze_compare ==
    /\ req.pc = "compare"
    /\ IF req.k > Len(req.roster)
       THEN req' = [req EXCEPT !.pc = "record"]
       ELSE IF students[req.roster[req.k]].face_encoding
       THEN \E response \in Responses, similarity_score \in SimValues :
              req' = compare_step(req, response, similarity_score)
       ELSE req' = [req EXCEPT !.k = @ + 1]
    /\ UNCHANGED <<monitoring_active, students, entry_logs, system_alerts, frames>>
    /\ UNCHANGED alarm_vars
    /\ UNCHANGED clock_vars
    /\ UNCHANGED service_vars

\* analyze_frame, lines 463-489: entry log, result, and for an unmatched
\* face the alert and the alarm trigger
analyze_record ==
    /\ req.pc = "record"
    /\ IF is_match(req.matched_student)
       THEN /\ req' = [req EXCEPT
                  !.session_logs = Append(@, entry_log_row(req.matched_student,
                                                           req.best_match_score)),
                  !.results = Append(@, [recognized |-> TRUE,
                                         name |-> req.matched_student,
                                         confidence |-> req.best_match_score]),
                  !.j = @ + 1, !.pc = "face"]
            /\ UNCHANGED alarm_vars
       ELSE /\ req' = [req EXCEPT
                  !.session_logs = Append(@, entry_log_row(req.matched_student,
                                                           req.best_match_score)),
                  !.session_alerts = Append(@, alert_row),
                  !.triggers = Append(@, [alert_type |-> "unknown_person",
                                          severity |-> "high"]),
                  !.results = Append(@, [recognized |-> FALSE,
                                         name |-> NoStudent,
                                         confidence |-> NoScore]),
                  !.j = @ + 1, !.pc = "face"]
            /\ trigger_alarm("unknown_person", "Unknown person detected", "high")
    /\ UNCHANGED <<monitoring_active, students, entry_logs, system_alerts, frames>>
    /\ UNCHANGED clock_vars
    /\ UNCHANGED service_vars

\* analyze_frame, lines 491-502: commit and answer, or roll back on failure
analyze_commit ==
    /\ req.pc = "commit"
    /\ \E committed \in BOOLEAN :
         IF committed
         THEN /\ entry_logs' = entry_logs \o req.session_logs
              /\ system_alerts' = system_alerts \o req.session_alerts
              /\ req' = [req EXCEPT !.pc = "done", !.status = "success",
                                    !.faces_detected = Len(req.processed)]
         ELSE /\ handler_exception
              /\ UNCHANGED <<entry_logs, system_alerts>>
    /\ UNCHANGED <<monitoring_active, students, frames>>
    /\ UNCHANGED alarm_vars
    /\ UNCHANGED clock_vars
    /\ UNCHANGED service_vars

\* start_monitoring, lines 162-174
start_monitoring ==
    /\ ~monitoring_active
    /\ monitoring_active' = TRUE
    /\ UNCHANGED <<students, entry_logs, system_alerts, req, frames>>
    /\ UNCHANGED alarm_vars
    /\ UNCHANGED clock_vars
    /\ UNCHANGED service_vars

\* stop_monitoring, line 185
stop_monitoring ==
    /\ monitoring_active
    /\ monitoring_active' = FALSE
    /\ UNCHANGED <<students, entry_logs, system_alerts, req, frames>>
    /\ UNCHANGED alarm_vars
    /\ UNCHANGED clock_vars
    /\ UNCHANGED service_vars

\* the /stop_alarm route: stop_security_alarm -> AlarmSystem.stop_alarm
stop_alarm ==
    /\ is_active \/ \E n \in 1..Len(loops) : running(loops[n])
    /\ stop_alarm_effect
    /\ UNCHANGED frame_vars
    /\ UNCHANGED clock_vars
    /\ UNCHANGED service_vars

\* ------------------------------------------- alarm_system.py, concurrently
TriggerArgs ==
    { [alert_type |-> "unknown_person", message |-> "Unknown person detected",
       severity |-> "high"],
      [alert_type |-> "test_alert", message |-> "This is a test alarm",
       severity |-> "low"] }

IdleCaller ==
    [pc |-> "idle", alert_type |-> "", message |-> "", severity |-> ""]

\* trigger_alarm, line 27, run by caller c: the test of is_active
trigger_alarm_test(c) ==
    /\ callers[c].pc = "idle"
    /\ trigger_calls < MaxTriggers
    /\ trigger_calls' = trigger_calls + 1
    /\ \E args \in TriggerArgs :
         callers' = [callers EXCEPT ![c] =
                        IF trigger_guard
                        THEN [pc |-> "set", alert_type |-> args.alert_type,
                              message |-> args.message, severity |-> args.severity]
                        ELSE IdleCaller]
    /\ UNCHANGED alarm_vars
    /\ UNCHANGED now
    /\ UNCHANGED frame_vars
    /\ UNCHANGED service_vars

\* trigger_alarm, lines 28-39, run by caller c after the test let it through
trigger_alarm_set(c) ==
    /\ callers[c].pc = "set"
    /\ start_alarm(callers[c].alert_type, callers[c].message, callers[c].severity)
    /\ callers' = [callers EXCEPT ![c] = IdleCaller]
    /\ UNCHANGED <<trigger_calls, now>>
    /\ UNCHANGED frame_vars
    /\ UNCHANGED service_vars

\* trigger_security_alarm called and run to completion by one caller
trigger_security_alarm ==
    /\ trigger_calls < MaxTriggers
    /\ trigger_calls' = trigger_calls + 1
    /\ \E args \in TriggerArgs :
         trigger_alarm(args.alert_type, args.message, args.severity)
    /\ UNCHANGED <<callers, now>>
    /\ UNCHANGED frame_vars
    /\ UNCHANGED service_vars

\* _alarm_loop, line 57: the loop condition
loop_condition(severity, start_time) ==
    is_active /\ (now - start_time) < get_alarm_duration(severity)

\* _alarm_loop, lines 57-69: test the condition; notify and go to sleep, or
\* leave the loop
loop_iteration(n, start_time) ==
    IF loop_condition(loops[n].severity, start_time)
    THEN loops' = [loops EXCEPT ![n].pc = "sleep",
                                ![n].start_time = start_time,
                                ![n].notified = @ + 1,
                                ![n].wake = now + notification_interval(loops[n].severity)]
    ELSE loops' = [loops EXCEPT ![n].pc = "exit", ![n].start_time = start_time]

\* _alarm_loop, lines 54-57: the thread starts running
alarm_loop_start(n) ==
    /\ loops[n].pc = "start"
    /\ loop_iteration(n, now)
    /\ UNCHANGED <<is_active, alarm_log>>
    /\ UNCHANGED clock_vars
    /\ UNCHANGED service_vars
    /\ UNCHANGED frame_vars

\* _alarm_loop, lines 69 and 57: the sleep ends and the condition is re-tested
alarm_loop_wake(n) ==
    /\ loops[n].pc = "sleep"
    /\ now >= loops[n].wake
    /\ loop_iteration(n, loops[n].start_time)
    /\ UNCHANGED <<is_active, alarm_log>>
    /\ UNCHANGED clock_vars
    /\ UNCHANGED service_vars
    /\ UNCHANGED frame_vars

\* _alarm_loop, line 72: auto-stop after the loop
alarm_loop_exit(n) ==
    /\ loops[n].pc = "exit"
    /\ is_active' = FALSE
    /\ loops' = [loops EXCEPT ![n].pc = "done"]
    /\ UNCHANGED alarm_log
    /\ UNCHANGED clock_vars
    /\ UNCHANGED service_vars
    /\ UNCHANGED frame_vars

\* a thread or caller that can take its next step without waiting
urgent ==
    \/ \E n \in 1..Len(loops) :
          \/ loops[n].pc \in {"start", "exit"}
          \/ loops[n].pc = "sleep" /\ loops[n].wake <= now
    \/ \E c \in 1..NumCallers : callers[c].pc = "set"

\* one second passes
tick ==
    /\ now < MaxTime
    /\ ~urgent
    /\ now' = now + 1
    /\ UNCHANGED <<callers, trigger_calls>>
    /\ UNCHANGED alarm_vars
    /\ UNCHANGED frame_vars
    /\ UNCHANGED service_vars

\* --------------------------------------------- app.py, the latest-frame cell
\* frames are numbered in capture order; the cell starts out as None
NoFrame == 0

\* the _capture_loop thread before it is started
IdleCapture == [pc |-> "idle", consecutive_failures |-> 0, frame |-> NoFrame]

\* a get_camera_frame request before it arrives
IdleReader ==
    [pc |-> "idle", b64 |-> NoFrame, status |-> "", floor |-> NoFrame,
     overtaken |-> FALSE]

ReadOutcomes == {"frame", "failed", "raised"}

\* _capture_loop, lines 196-199: the function is entered
capture_loop_start ==
    /\ capture.pc = "idle"
    /\ capture' = [capture EXCEPT !.pc = "check", !.consecutive_failures = 0]
    /\ UNCHANGED <<camera, captures, cell_vars, readers, newest_returned,
                   camera_users>>
    /\ UNCHANGED frame_vars
    /\ UNCHANGED alarm_vars
    /\ UNCHANGED clock_vars
    /\ UNCHANGED <<admin_vars, adders>>

\* _capture_loop, line 201: the loop condition
capture_check ==
    /\ capture.pc = "check"
    /\ capture' = [capture EXCEPT !.pc =
                      IF monitoring_active /\ camera = "open"
                      THEN "read" ELSE "done"]
    /\ camera_users' = camera_users \cup {"capture_loop"}
    /\ UNCHANGED <<camera, captures, cell_vars, readers, newest_returned>>
    /\ UNCHANGED frame_vars
    /\ UNCHANGED alarm_vars
    /\ UNCHANGED clock_vars
    /\ UNCHANGED <<admin_vars, adders>>

\* variant: a read that fails empties the cell
cell_cleared(cell) == NoFrame

\* _capture_loop, lines 211-223: neither the else branch nor the except
\* branch writes the cell
cell_after_failed_read(cell) == cell

\* _capture_loop, lines 203-223: the thread after camera.read() came back
\* with this outcome; next_frame is the frame a successful read delivers
read_step(c, outcome, next_frame) ==
    IF outcome = "frame"
    THEN [c EXCEPT !.pc = "publish", !.consecutive_failures = 0,
                   !.frame = next_frame]
    ELSE IF outcome = "failed"
    THEN [c EXCEPT !.consecutive_failures = @ + 1,
                   !.pc = IF c.consecutive_failures + 1 > FailureThreshold
                          THEN "done" ELSE "check"]
    ELSE [c EXCEPT !.pc = "check"]

\* _capture_loop, lines 202-207 and 211-223: one device read and, for a
\* frame, its encoding; calling read() on a camera global that was set to
\* None raises
capture_read(outcome) ==
    /\ capture.pc = "read"
    /\ outcome = "frame" => captures < MaxCaptures
    /\ LET actual == IF camera = "none" THEN "raised" ELSE outcome
       IN /\ capture' = read_step(capture, actual, captures + 1)
          /\ captures' = IF actual = "frame" THEN captures + 1 ELSE captures
          /\ IF actual = "frame"
             THEN UNCHANGED <<latest_frame, latest_frame_b64>>
             ELSE /\ latest_frame' = cell_after_failed_read(latest_frame)
                  /\ latest_frame_b64' = cell_after_failed_read(latest_frame_b64)
    /\ camera_users' = camera_users \cup {"capture_loop"}
    /\ UNCHANGED <<camera, frame_lock, readers, newest_returned>>
    /\ UNCHANGED frame_vars
    /\ UNCHANGED alarm_vars
    /\ UNCHANGED clock_vars
    /\ UNCHANGED <<admin_vars, adders>>

\* variant: the lock is given up between the two assignments
lock_released_early == "free"

\* _capture_loop, lines 208-210: the lock is held across both assignments
lock_after_raw_write == "capture_loop"

\* _capture_loop, lines 208-209: frame_lock is taken and the raw frame stored
capture_copy_raw ==
    /\ capture.pc = "publish"
    /\ frame_lock = "free"
    /\ latest_frame' = capture.frame
    /\ frame_lock' = lock_after_raw_write
    /\ capture' = [capture EXCEPT !.pc = "locked"]
    /\ UNCHANGED <<camera, captures, latest_frame_b64, readers, newest_returned,
                   camera_users>>
    /\ UNCHANGED frame_vars
    /\ UNCHANGED alarm_vars
    /\ UNCHANGED clock_vars
    /\ UNCHANGED <<admin_vars, adders>>

\* _capture_loop, lines 210 and 219: the encoded frame is stored and the
\* lock released; both forms are written as the number of their capture
capture_copy_b64 ==
    /\ capture.pc = "locked"
    /\ latest_frame_b64' = capture.frame
    /\ frame_lock' = "free"
    /\ capture' = [capture EXCEPT !.pc = "check"]
    /\ UNCHANGED <<camera, captures, latest_frame, readers, newest_returned,
                   camera_users>>
    /\ UNCHANGED frame_vars
    /\ UNCHANGED alarm_vars
    /\ UNCHANGED clock_vars
    /\ UNCHANGED <<admin_vars, adders>>

\* get_camera_frame, lines 232-233: the encoded frame is copied out under
\* frame_lock; floor notes the newest frame already returned at that moment
\* and overtaken whether a newer frame has been returned by the time of the
\* answer
get_camera_frame_copy(r) ==
    /\ readers[r].pc \in {"idle", "answered"}
    /\ frame_lock = "free"
    /\ readers' = [readers EXCEPT ![r] =
                      [pc |-> "copied", b64 |-> latest_frame_b64, status |-> "",
                       floor |-> newest_returned, overtaken |-> FALSE]]
    /\ UNCHANGED <<camera, capture, captures, cell_vars, newest_returned,
                   camera_users>>
    /\ UNCHANGED frame_vars
    /\ UNCHANGED alarm_vars
    /\ UNCHANGED clock_vars
    /\ UNCHANGED <<admin_vars, adders>>

\* get_camera_frame, lines 235-242: the answer is sent
get_camera_frame_answer(r) ==
    /\ readers[r].pc = "copied"
    /\ readers' = [readers EXCEPT ![r].pc = "answered",
                      ![r].status = IF readers[r].b64 # NoFrame
                                    THEN "success" ELSE "error",
                      ![r].overtaken = readers[r].b64 < newest_returned]
    /\ newest_returned' = IF readers[r].b64 > newest_returned
                          THEN readers[r].b64 ELSE newest_returned
    /\ UNCHANGED <<camera, capture, captures, cell_vars, camera_users>>
    /\ UNCHANGED frame_vars
    /\ UNCHANGED alarm_vars
    /\ UNCHANGED clock_vars
    /\ UNCHANGED <<admin_vars, adders>>

\* an add_student request before it arrives
IdleAdder == [pc |-> "idle", student_id |-> "", features |-> FALSE, flash |-> ""]

\* ------------------------------------- app.py, control and admin handlers
NoResponse == [handler |-> "none", status |-> "none"]

\* the request counter shared by the control and admin handlers
request_received ==
    /\ calls < MaxCalls
    /\ calls' = calls + 1

\* variant: the alert is marked resolved and the alarm is left as it is
resolve_alert_without_stop(alert_id) ==
    /\ system_alerts' = [system_alerts EXCEPT ![alert_id].is_resolved = TRUE]
    /\ UNCHANGED alarm_vars

\* resolve_alert, lines 279-285: mark the row, commit, stop the alarm
resolve_alert_effect(alert_id) ==
    /\ system_alerts' = [system_alerts EXCEPT ![alert_id].is_resolved = TRUE]
    /\ stop_alarm_effect

\* resolve_alert, lines 274-289; get_or_404 raises for an unknown id, and a
\* failed commit raises before the alarm is stopped
resolve_alert(alert_id) ==
    /\ request_received
    /\ \E committed \in BOOLEAN :
         IF alert_id \in 1..Len(system_alerts) /\ committed
         THEN /\ resolve_alert_effect(alert_id)
              /\ answer' = [handler |-> "resolve_alert", status |-> "success",
                              alert_id |-> alert_id]
         ELSE /\ answer' = [handler |-> "resolve_alert", status |-> "error",
                              alert_id |-> alert_id]
              /\ UNCHANGED system_alerts
              /\ UNCHANGED alarm_vars
    /\ UNCHANGED <<monitoring_active, students, entry_logs, req, frames>>
    /\ UNCHANGED clock_vars
    /\ UNCHANGED <<capture_vars, monitor_threads, adders>>

\* variant: a thread is started on every call
start_guard_off == TRUE

\* start_monitoring, line 162: the test that lets the call start a thread
start_guard == ~monitoring_active

\* start_monitoring, lines 156-178, with its answer and its thread; the
\* except branch is taken when the thread cannot be started
start_monitoring_request ==
    /\ request_received
    /\ IF start_guard
       THEN \E started \in BOOLEAN :
              IF started
              THEN /\ monitoring_active' = TRUE
                   /\ monitor_threads' = monitor_threads + 1
                   /\ answer' = [handler |-> "start_monitoring",
                                   status |-> "success"]
              ELSE /\ monitoring_active' = FALSE
                   /\ UNCHANGED monitor_threads
                   /\ answer' = [handler |-> "start_monitoring",
                                   status |-> "error"]
       ELSE /\ UNCHANGED <<monitoring_active, monitor_threads>>
            /\ answer' = [handler |-> "start_monitoring", status |-> "info"]
    /\ UNCHANGED <<students, entry_logs, system_alerts, req, frames>>
    /\ UNCHANGED alarm_vars
    /\ UNCHANGED clock_vars
    /\ UNCHANGED <<capture_vars, adders>>

\* stop_monitoring, lines 180-188, with its answer
stop_monitoring_request ==
    /\ request_received
    /\ monitoring_active' = FALSE
    /\ answer' = [handler |-> "stop_monitoring", status |-> "success"]
    /\ UNCHANGED <<students, entry_logs, system_alerts, req, frames>>
    /\ UNCHANGED alarm_vars
    /\ UNCHANGED clock_vars
    /\ UNCHANGED <<capture_vars, monitor_threads, adders>>

\* monitoring_status, lines 248-254
monitoring_status ==
    /\ request_received
    /\ answer' = [handler |-> "monitoring_status", status |-> "ok",
                    active |-> monitoring_active]
    /\ UNCHANGED frame_vars
    /\ UNCHANGED alarm_vars
    /\ UNCHANGED clock_vars
    /\ UNCHANGED <<capture_vars, monitor_threads, adders>>

\* clear_all_data and system_reset, lines 343-345 and 392-394: the camera
\* global is tested, and a handle found there is released and dropped
release_camera(handler) ==
    /\ camera' = "none"
    /\ camera_users' = camera_users \cup {handler}

\* variant: only the alerts are deleted
delete_alerts_only ==
    /\ system_alerts' = <<>>
    /\ UNCHANGED entry_logs

\* clear_all_data and system_reset, lines 351-357 and 400-403: both tables
\* are emptied
delete_alerts_and_logs ==
    /\ system_alerts' = <<>>
    /\ entry_logs' = <<>>

\* the body shared by clear_all_data (lines 336-365) and system_reset
\* (lines 385-412): a failed commit is rolled back and answered with an error
reset(handler) ==
    /\ request_received
    /\ monitoring_active' = FALSE
    /\ release_camera(handler)
    /\ stop_alarm_effect
    /\ \E committed \in BOOLEAN :
         IF committed
         THEN /\ delete_alerts_and_logs
              /\ answer' = [handler |-> handler, status |-> "success"]
         ELSE /\ UNCHANGED <<system_alerts, entry_logs>>
              /\ answer' = [handler |-> handler, status |-> "error"]
    /\ UNCHANGED <<students, req, frames>>
    /\ UNCHANGED clock_vars
    /\ UNCHANGED <<capture, captures, cell_vars, readers, newest_returned>>
    /\ UNCHANGED <<monitor_threads, adders>>

clear_all_data == reset("clear_all_data")

system_reset == reset("system_reset")

\* ------------------------------------------------ app.py, student handlers
StudentIds == {"s1", "s2"}

\* add_student, lines 116-129: the row of a new student; is_active defaults
\* to True (models.py, line 17), face_encoding is set only for truthy features
student_row(student_id, features) ==
    [student_id |-> student_id, is_active |-> TRUE, face_encoding |-> features]

\* Student.query.filter_by(student_id=student_id).first(): deleted rows count
existing_student(student_id) ==
    \E id \in 1..Len(students) : students[id].student_id = student_id

\* variant: the column is not declared unique
not_unique(student_id) == FALSE

\* models.py, line 12: the unique constraint on student_id refuses the commit
unique_violation(student_id) == existing_student(student_id)

\* add_student, lines 83-112: the form is read, the identifier is looked up,
\* the photo is saved and its features are extracted
add_student_check(a) ==
    /\ adders[a].pc \in {"idle", "done"}
    /\ \E student_id \in StudentIds, features \in BOOLEAN,
          photo \in {"missing", "ok"} :
         adders' = [adders EXCEPT ![a] =
            IF existing_student(student_id)
            THEN [pc |-> "done", student_id |-> student_id,
                  features |-> FALSE, flash |-> "exists"]
            ELSE IF photo = "missing"
            THEN [pc |-> "done", student_id |-> student_id,
                  features |-> FALSE, flash |-> "error"]
            ELSE [pc |-> "insert", student_id |-> student_id,
                  features |-> features, flash |-> ""]]
    /\ UNCHANGED frame_vars
    /\ UNCHANGED alarm_vars
    /\ UNCHANGED clock_vars
    /\ UNCHANGED <<capture_vars, admin_vars>>

\* add_student, lines 115-139: the row is added and committed; a commit the
\* database refuses is rolled back
add_student_insert(a) ==
    /\ adders[a].pc = "insert"
    /\ \E committed \in BOOLEAN :
         IF committed /\ ~unique_violation(adders[a].student_id)
         THEN /\ students' = Append(students,
                      student_row(adders[a].student_id, adders[a].features))
              /\ adders' = [adders EXCEPT ![a].pc = "done",
                                          ![a].flash = "success"]
         ELSE /\ UNCHANGED students
              /\ adders' = [adders EXCEPT ![a].pc = "done",
                                          ![a].flash = "rollback"]
    /\ UNCHANGED <<monitoring_active, entry_logs, system_alerts, req, frames>>
    /\ UNCHANGED alarm_vars
    /\ UNCHANGED clock_vars
    /\ UNCHANGED <<capture_vars, admin_vars>>

\* delete_student, lines 142-154: soft delete by primary key; an unknown key
\* or a failed commit leaves the table as it was
delete_student(id) ==
    /\ \E committed \in BOOLEAN :
         IF id \in 1..Len(students) /\ committed
         THEN students' = [students EXCEPT ![id].is_active = FALSE]
         ELSE UNCHANGED students
    /\ UNCHANGED <<monitoring_active, entry_logs, system_alerts, req, frames>>
    /\ UNCHANGED alarm_vars
    /\ UNCHANGED clock_vars
    /\ UNCHANGED service_vars

\* Student rows: enrolled with a descriptor, soft-deleted, enrolled without a
\* descriptor (feature extraction returned nothing at enrolment)
Enrolled == [is_active |-> TRUE, face_encoding |-> TRUE]
Deleted == [is_active |-> FALSE, face_encoding |-> TRUE]
NoDescriptor == [is_active |-> TRUE, face_encoding |-> FALSE]

StudentTables ==
    { <<Enrolled, Enrolled>>,
      <<Deleted, Enrolled, NoDescriptor>>,
      <<Enrolled, NoDescriptor, Enrolled, Deleted>> }

\* module level of app.py (lines 28-36), AlarmSystem.__init__, and what the
\* database and the alarm log file hold when the process starts
StartState(student_table, alerts, logs, alarm_file, device) ==
    /\ monitoring_active = FALSE
    /\ students = student_table
    /\ entry_logs = logs
    /\ system_alerts = alerts
    /\ req = BlankReq
    /\ frames = 0
    /\ is_active = FALSE
    /\ loops = <<>>
    /\ alarm_log = alarm_file
    /\ callers = [c \in 1..NumCallers |-> IdleCaller]
    /\ trigger_calls = 0
    /\ now = 0
    /\ camera = device
    /\ capture = IdleCapture
    /\ captures = 0
    /\ latest_frame = NoFrame
    /\ latest_frame_b64 = NoFrame
    /\ frame_lock = "free"
    /\ readers = [r \in 1..NumReaders |-> IdleReader]
    /\ newest_returned = NoFrame
    /\ camera_users = {}
    /\ answer = NoResponse
    /\ calls = 0
    /\ monitor_threads = 0
    /\ adders = [a \in 1..NumAdders |-> IdleAdder]

Init == \E student_table \in StudentTables :
            StartState(student_table, <<>>, <<>>, <<>>, "none")

Next ==
    \/ analyze_frame
    \/ analyze_detect
    \/ analyze_extract
    \/ analyze_face
    \/ analyze_compare
    \/ analyze_record
    \/ analyze_commit
    \/ start_monitoring
    \/ stop_monitoring
    \/ stop_alarm

Spec == Init /\ [][Next]_vars

InitAlarm == StartState(<<Enrolled, Enrolled>>, <<>>, <<>>, <<>>, "none")

NextAlarm ==
    \/ \E c \in 1..NumCallers : trigger_alarm_test(c)
    \/ \E c \in 1..NumCallers : trigger_alarm_set(c)
    \/ stop_alarm
    \/ \E n \in 1..Len(loops) : alarm_loop_start(n)
    \/ \E n \in 1..Len(loops) : alarm_loop_wake(n)
    \/ \E n \in 1..Len(loops) : alarm_loop_exit(n)
    \/ tick

SpecAlarm == InitAlarm /\ [][NextAlarm]_vars

\* the frame pipeline fed with frames of several faces
NextBatch ==
    \/ analyze_frame
    \/ analyze_detect_batch
    \/ analyze_extract
    \/ analyze_face
    \/ analyze_compare
    \/ analyze_record
    \/ analyze_commit
    \/ start_monitoring
    \/ stop_monitoring
    \/ stop_alarm

SpecBatch == InitAlarm /\ [][NextBatch]_vars

\* SystemAlert and EntryLog rows left in the database by earlier sessions
ResolvedAlert == [alert_row EXCEPT !.is_resolved = TRUE]
AlertTables == { <<alert_row>>, <<ResolvedAlert, alert_row>> }
LogTables == { <<entry_log_row(1, 90), entry_log_row(NoStudent, 0)>> }

InitAdmin == \E alerts \in AlertTables, logs \in LogTables :
                 StartState(<<Enrolled, Deleted>>, alerts, logs, <<>>, "none")

NextAdmin ==
    \/ \E alert_id \in 1..(Len(system_alerts) + 1) : resolve_alert(alert_id)
    \/ start_monitoring_request
    \/ stop_monitoring_request
    \/ monitoring_status
    \/ clear_all_data
    \/ system_reset
    \/ trigger_security_alarm
    \/ stop_alarm
    \/ \E n \in 1..Len(loops) : alarm_loop_start(n)
    \/ \E n \in 1..Len(loops) : alarm_loop_exit(n)

SpecAdmin == InitAdmin /\ [][NextAdmin]_vars

\* _capture_loop run by a thread whose starter has opened the device
InitCapture == StartState(<<Enrolled, Enrolled>>, <<>>, <<>>, <<>>, "open")

NextCapture ==
    \/ capture_loop_start
    \/ capture_check
    \/ \E outcome \in {"frame", "raised"} : capture_read(outcome)
    \/ capture_copy_raw
    \/ capture_copy_b64
    \/ \E r \in 1..NumReaders : get_camera_frame_copy(r)
    \/ \E r \in 1..NumReaders : get_camera_frame_answer(r)
    \/ start_monitoring_request
    \/ clear_all_data
    \/ system_reset

SpecCapture == InitCapture /\ [][NextCapture]_vars

\* the same thread when the device can also report failure
NextFailure ==
    \/ capture_loop_start
    \/ capture_check
    \/ \E outcome \in ReadOutcomes : capture_read(outcome)
    \/ capture_copy_raw
    \/ capture_copy_b64
    \/ start_monitoring_request
    \/ stop_monitoring_request

SpecFailure == InitCapture /\ [][NextFailure]_vars

\* logs/alarm_log.json as earlier runs left it: n records, written one per
\* second up to the second before this run starts
earlier_log(n) ==
    [k \in 1..n |-> log_entry(k - n - 1, "unknown_person",
                              "Unknown person detected", "high")]

InitLog == \E n \in {0, AlarmLogCap - 1, AlarmLogCap} :
               StartState(<<Enrolled, Enrolled>>, <<>>, <<>>, earlier_log(n), "none")

NextLog ==
    \/ \E c \in 1..NumCallers : trigger_alarm_test(c)
    \/ \E c \in 1..NumCallers : trigger_alarm_set(c)
    \/ stop_alarm
    \/ \E n \in 1..Len(loops) : alarm_loop_start(n)
    \/ \E n \in 1..Len(loops) : alarm_loop_exit(n)

SpecLog == InitLog /\ [][NextLog]_vars

InitStudents == StartState(<<>>, <<>>, <<>>, <<>>, "none")

NextStudents ==
    \/ \E a \in 1..NumAdders : add_student_check(a)
    \/ \E a \in 1..NumAdders : add_student_insert(a)
    \/ \E id \in 1..(Len(students) + 1) : delete_student(id)

SpecStudents == InitStudents /\ [][NextStudents]_vars

\* ------------------------------------------------------------ properties
RECURSIVE max_similarity(_)
max_similarity(compared) ==
    IF Len(compared) = 1 THEN compared[1].similarity
    ELSE LET rest == max_similarity(Tail(compared))
         IN IF compared[1].similarity >= rest THEN compared[1].similarity ELSE rest

first_attaining(compared, score) ==
    compared[CHOOSE n \in 1..Len(compared) :
                /\ compared[n].similarity = score
                /\ \A m \in 1..(n - 1) : compared[m].similarity # score].student

has_face_encoding(id) == students[id].face_encoding

last(q) == q[Len(q)]

\* the step of analyze_frame that records a face carrying a descriptor
records_described_face ==
    /\ req.pc = "record"
    /\ req'.pc = "face"
    /\ truthy(req.processed[req.j].features)

\* C1: a face with a non-empty descriptor is recorded as recognized exactly
\* when the greatest similarity over the active students with a stored
\* descriptor strictly exceeds 0.75; the match is then the first student
\* attaining that greatest similarity, and the confidence is that similarity.
C1_MatchIffMaxAboveThreshold ==
    [][records_described_face =>
         LET compared == req.compared
             result == last(req'.results)
             row == last(req'.session_logs)
             matches == compared # <<>> /\ max_similarity(compared) > Threshold
         IN /\ [n \in 1..Len(compared) |-> compared[n].student]
                 = SelectSeq(active_students, has_face_encoding)
            /\ result.recognized <=> matches
            /\ row.is_recognized <=> matches
            /\ matches =>
                 /\ result.name = first_attaining(compared, max_similarity(compared))
                 /\ result.confidence = max_similarity(compared)
                 /\ row.student_id = result.name
                 /\ row.confidence_score = result.confidence
    ]_vars

\* C1 witness: two students tie on a similarity above the threshold and the
\* first of them has been recorded as the match
C1_Witness ==
    /\ req.pc = "face"
    /\ req.results # <<>>
    /\ Len(req.compared) = 2
    /\ req.compared[1].similarity = req.compared[2].similarity
    /\ req.compared[1].similarity > Threshold
    /\ last(req.results).recognized
    /\ last(req.results).name = req.compared[1].student

unmatched_rows(rows) == {n \in 1..Len(rows) : ~rows[n].is_recognized}

\* C2: a frame answered with success has one entry log and one result per
\* processed face, one new alert and one unknown_person/high alarm trigger
\* per unmatched face, and faces_detected equal to the number of results.
C2_OneOutcomePerFace ==
    [][(req.pc = "commit" /\ req'.status = "success") =>
         LET rows == req.session_logs
             unmatched == Cardinality(unmatched_rows(rows))
         IN /\ Len(rows) = Len(req.processed)
            /\ Len(req'.results) = Len(req.processed)
            /\ req'.faces_detected = Len(req'.results)
            /\ entry_logs' = entry_logs \o rows
            /\ \A n \in 1..Len(rows) :
                 req'.results[n].recognized = rows[n].is_recognized
            /\ Len(system_alerts') = Len(system_alerts) + unmatched
            /\ \A n \in (Len(system_alerts) + 1)..Len(system_alerts') :
                 /\ system_alerts'[n].alert_type = "unknown_person"
                 /\ system_alerts'[n].severity = "high"
            /\ Len(req.triggers) = unmatched
            /\ \A n \in 1..Len(req.triggers) :
                 /\ req.triggers[n].alert_type = "unknown_person"
                 /\ req.triggers[n].severity = "high"
            /\ (req.processed = <<>>) =>
                 /\ req'.results = <<>>
                 /\ UNCHANGED <<entry_logs, system_alerts>>
                 /\ req.triggers = <<>>
    ]_vars

\* C2 witness: a successful frame whose face was unknown: one entry log, one
\* alert, one trigger call, and the alarm sounding
C2_Witness ==
    /\ req.status = "success"
    /\ Len(req.results) = 1
    /\ ~req.results[1].recognized
    /\ Len(entry_logs) = 1
    /\ Len(system_alerts) = 1
    /\ Len(req.triggers) = 1
    /\ is_active
    /\ Len(loops) = 1

\* C3: analyze_frame called while monitoring is off answers "skipped" and
\* changes nothing else: no log, no alert, no alarm, no capability call.
C3_SkippedWhenMonitoringOff ==
    [][(frames' = frames + 1 /\ ~monitoring_active) =>
         /\ req' = [BlankReq EXCEPT !.pc = "done", !.status = "skipped"]
         /\ req'.calls = 0
         /\ UNCHANGED <<monitoring_active, students, entry_logs, system_alerts>>
         /\ UNCHANGED alarm_vars
    ]_vars

\* C3 witness: a frame was submitted with monitoring off and was skipped
C3_Witness ==
    /\ req.status = "skipped"
    /\ frames = 1
    /\ ~monitoring_active

\* C4: trigger_alarm called while the alarm is active is a no-op: no new
\* loop, no log record, the running alarm untouched.
C4_TriggerWhileActiveNoOp ==
    [][(trigger_calls' = trigger_calls + 1 /\ is_active) =>
         /\ callers' = callers
         /\ UNCHANGED alarm_vars
    ]_vars

\* C4 witness: a second call was made while the first alarm was sounding and
\* there is still one loop and one log record
C4_Witness ==
    /\ trigger_calls = 2
    /\ is_active
    /\ Len(loops) = 1
    /\ Len(alarm_log) = 1
    /\ loops[1].pc = "sleep"
    /\ ~loops[1].stopped
    /\ \A c \in 1..NumCallers : callers[c].pc = "idle"

\* C5: at most one notification loop is running at any time.
C5_AtMostOneLoop ==
    Cardinality({n \in 1..Len(loops) : loops[n].pc = "sleep"}) <= 1

\* the alarm that is active: the thread of the latest successful trigger
current_alarm == loops[Len(loops)]

\* C6: an active alarm that is not stopped goes idle by itself once its
\* severity's duration has elapsed since it started, and never earlier.
C6_IdleAtDurationNotBefore ==
    /\ [](is_active /\ loops # <<>> /\ current_alarm.start_time # NotStarted
            => now - current_alarm.start_time
                 <= get_alarm_duration(current_alarm.severity))
    /\ [][\A n \in 1..Len(loops) :
            ( /\ loops[n].pc = "exit" /\ loops'[n].pc = "done"
              /\ now - loops[n].start_time >= get_alarm_duration(loops[n].severity)
              /\ is_active ) =>
               /\ current_alarm.start_time # NotStarted
               /\ now - current_alarm.start_time
                    >= get_alarm_duration(current_alarm.severity)
       ]_vars

\* C7: stop_alarm makes the alarm idle at once, and a loop that was running
\* when stop_alarm returned emits no further notification.
C7_NoNotificationAfterStop ==
    [][/\ (\E n \in 1..Len(loops) : ~loops[n].stopped /\ loops'[n].stopped)
            => ~is_active'
       /\ \A n \in 1..Len(loops) :
            loops[n].stopped => loops'[n].notified = loops[n].notified
    ]_vars

\* C8: a sleep lasts one notification interval, and the loop leaves at the
\* first test of its condition after a stop_alarm call or after its duration.
C8_ExitWithinOneInterval ==
    /\ [](\A n \in 1..Len(loops) :
            loops[n].pc = "sleep" =>
               loops[n].wake - now <= notification_interval(loops[n].severity))
    /\ [][\A n \in 1..Len(loops) :
            ( /\ loops[n].pc = "sleep"
              /\ loops'[n].pc # "sleep" \/ loops'[n].wake # loops[n].wake
              /\ \/ loops[n].stopped
                 \/ now - loops[n].start_time >= get_alarm_duration(loops[n].severity) )
            => loops'[n].pc = "exit"
       ]_vars

TimeoutResponse == [raised |-> TRUE, status_code |-> 0, content |-> <<>>]

\* some stretch of the text is a JSON object
contains_json_object(content) ==
    \E a \in 1..Len(content), b \in 1..Len(content) :
        a <= b /\ json_loads(SubSeq(content, a, b)) # "error"

\* success status, no valid JSON object in the text
MalformedResponses ==
    {response \in Responses :
        /\ ~response.raised
        /\ response.status_code = HTTP_OK
        /\ ~contains_json_object(response.content)}

\* C9: for each capability call, a success-status response without a valid
\* JSON object leaves the request as a timeout of that call does.
C9_MalformedAsTimeout ==
    /\ req.pc = "detect" =>
         \A response \in MalformedResponses, faces \in FaceLists :
            detect_step(req, response, faces) = detect_step(req, TimeoutResponse, faces)
    /\ (req.pc = "extract" /\ req.i <= Len(req.faces)) =>
         \A response \in MalformedResponses :
            extract_step(req, response) = extract_step(req, TimeoutResponse)
    /\ (req.pc = "compare" /\ req.k <= Len(req.roster)) =>
         \A response \in MalformedResponses, similarity_score \in SimValues :
            compare_step(req, response, similarity_score)
              = compare_step(req, TimeoutResponse, similarity_score)

\* timeout, non-success status, or malformed text
FailedResponses ==
    {response \in Responses : response.raised \/ response.status_code # HTTP_OK}
    \cup MalformedResponses

OkResponse == [raised |-> FALSE, status_code |-> HTTP_OK, content |-> <<"{", "k", "}">>]

\* C10: a failed capability call never turns into an error answer: failed
\* detection is no faces, a candidate whose extraction fails is skipped, and a
\* failed comparison counts as similarity 0.0.
C10_FailuresDegrade ==
    /\ req.pc = "detect" =>
         \A response \in FailedResponses, faces \in FaceLists :
            /\ detect_step(req, response, faces).status # "error"
            /\ detect_step(req, response, faces).faces = <<>>
    /\ (req.pc = "extract" /\ req.i <= Len(req.faces)) =>
         \A response \in FailedResponses :
            /\ extract_step(req, response).status # "error"
            /\ extract_step(req, response).processed = req.processed
    /\ (req.pc = "compare" /\ req.k <= Len(req.roster)) =>
         \A response \in FailedResponses, similarity_score \in SimValues :
            /\ compare_step(req, response, similarity_score).status # "error"
            /\ compare_step(req, response, similarity_score)
                 = compare_step(req, OkResponse, 0)
    /\ \A n \in 1..Len(req.results) : req.processed[n].features # "None"

\* this step is a request to the named control or admin handler
is_call(handler) == calls' = calls + 1 /\ answer'.handler = handler

\* C11: every resolve_alert call that answers success leaves the alarm idle
\* (is_active false) and the alert it was called for marked resolved,
\* whatever trigger had made the alarm active
C11_ResolveStopsAlarm ==
    [][(is_call("resolve_alert") /\ answer'.status = "success")
         => /\ ~is_active'
            /\ answer'.alert_id \in 1..Len(system_alerts')
            /\ system_alerts'[answer'.alert_id].is_resolved]_vars

\* an alert was resolved while an alarm raised by another trigger was
\* sounding: its loop has been stopped and the alarm is idle
C11_Witness ==
    /\ answer.handler = "resolve_alert"
    /\ answer.status = "success"
    /\ system_alerts[answer.alert_id].is_resolved
    /\ ~is_active
    /\ \E n \in 1..Len(loops) :
          loops[n].stopped /\ loops[n].alert_type = "test_alert"

\* C12: start_monitoring called while the flag is set leaves it set and
\* starts no thread; stop_monitoring called while the flag is clear leaves it
\* clear; monitoring_status answers with the flag and leaves it alone
C12_MonitoringIdempotent ==
    [][/\ (is_call("start_monitoring") /\ monitoring_active)
            => (monitoring_active' /\ monitor_threads' = monitor_threads)
       /\ (is_call("stop_monitoring") /\ ~monitoring_active)
            => ~monitoring_active'
       /\ is_call("monitoring_status")
            => (answer'.active = monitoring_active
                /\ monitoring_active' = monitoring_active)]_vars

\* start_monitoring was called a second time while monitoring was on
C12_Witness ==
    /\ answer.handler = "start_monitoring"
    /\ answer.status = "info"
    /\ monitoring_active
    /\ monitor_threads = 1

\* C17: a system_reset call that answers success leaves monitoring off, the
\* alarm flag clear, the SystemAlert and EntryLog tables empty and the
\* Student table as it was
C17_ResetKeepsStudents ==
    [][(is_call("system_reset") /\ answer'.status = "success")
         => /\ ~monitoring_active'
            /\ ~is_active'
            /\ system_alerts' = <<>>
            /\ entry_logs' = <<>>
            /\ students' = students]_vars

\* a reset that found monitoring on, an alarm sounding and rows in both
\* tables (every start state of this specification has such rows)
C17_Witness ==
    /\ answer.handler = "system_reset"
    /\ answer.status = "success"
    /\ monitor_threads = 1
    /\ ~monitoring_active
    /\ \E n \in 1..Len(loops) : loops[n].stopped
    /\ ~is_active
    /\ system_alerts = <<>>
    /\ entry_logs = <<>>
    /\ students = <<Enrolled, Deleted>>

\* C16: no two active rows of the Student table carry the same student_id
C16_OneActivePerStudentId ==
    \A id \in 1..Len(students), other \in 1..Len(students) :
        (id # other /\ students[id].is_active /\ students[other].is_active)
            => students[id].student_id # students[other].student_id

\* two add_student requests for one identifier overlapped: both passed the
\* lookup, one was committed and the other is about to be refused; another
\* student has been enrolled and deleted
C16_Witness ==
    /\ \E a \in 1..NumAdders :
          /\ adders[a].pc = "insert"
          /\ \E id \in 1..Len(students) :
                /\ students[id].student_id = adders[a].student_id
                /\ students[id].is_active
    /\ \E id \in 1..Len(students) : ~students[id].is_active

\* the _capture_loop thread has been started and has not returned
capture_running == capture.pc \notin {"idle", "done"}

\* C13: a start_monitoring call that answers success leaves the camera
\* device opened and the capture loop running (so that frames reach the cell
\* and get_camera_frame can return one)
C13_StartOpensCamera ==
    [][(is_call("start_monitoring") /\ answer'.status = "success")
         => (camera' = "open" /\ capture_running')]_vars

C18_FailedReadsCounted ==
    /\ (capture.pc = "read" /\ camera = "open")
          => /\ \A outcome \in {"failed", "raised"} :
                   read_step(capture, outcome, captures + 1).consecutive_failures
                      = capture.consecutive_failures + 1
             /\ read_step(capture, "frame", captures + 1).consecutive_failures = 0
    /\ capture.consecutive_failures > FailureThreshold => capture.pc = "done"

C20_CellReplacedAtomically ==
    /\ frame_lock = "free" => latest_frame = latest_frame_b64
    /\ frame_lock # "free" => (frame_lock = "capture_loop" /\ capture.pc = "locked")
    /\ capture.pc \in {"check", "read", "publish"} => frame_lock = "free"

\* the capture loop is inside the lock replacing a frame that a reader has
\* copied: the raw frame is already the new one, the encoded one still old
C20_Witness ==
    /\ frame_lock = "capture_loop"
    /\ latest_frame > latest_frame_b64
    /\ latest_frame_b64 # NoFrame
    /\ \E r \in 1..NumReaders :
          readers[r].pc = "copied" /\ readers[r].b64 = latest_frame_b64

\* the log after one more record, written without slicing: the oldest record
\* makes room when the log is full
appended(logs, entry) ==
    (IF Len(logs) < AlarmLogCap THEN logs ELSE Tail(logs)) \o <<entry>>

C21_OtherFacesPersisted ==
    [][(req.pc \in {"compare", "commit"} /\ req'.status = "error")
         => /\ entry_logs' = entry_logs \o req.session_logs
            /\ system_alerts' = system_alerts \o req.session_alerts]_vars

\* C22: while monitoring is off (from the return of stop_monitoring to the
\* next start_monitoring) no step commits an entry log or an alert, and the
\* pipeline triggers no alarm, also for a request that was in flight
C22_NothingRecordedWhileStopped ==
    [][(~monitoring_active /\ ~monitoring_active')
         => /\ entry_logs' = entry_logs
            /\ system_alerts' = system_alerts
            /\ Len(req'.triggers) <= Len(req.triggers)
            /\ Len(loops') = Len(loops)]_vars

\* an EntryLog row as the claim wants it: recognized, student and confidence
\* go together, a confidence is above the threshold, the student is active
well_formed_row(row) ==
    /\ row.is_recognized <=> row.student_id # NoStudent
    /\ row.is_recognized <=> row.confidence_score # NoScore
    /\ row.confidence_score # NoScore => row.confidence_score > Threshold
    /\ row.student_id # NoStudent
          => /\ row.student_id \in 1..Len(students)
             /\ students[row.student_id].is_active
             /\ students[row.student_id].face_encoding

====
